---- MODULE Spec2Model ----
(***************************************************************************)
(* Model of generate_pptx.py: the layout functions add_badge, add_bullets, *)
(* add_bottom_three_columns, add_divider and the script body main().       *)
(*                                                                         *)
(* Numbers.  The script computes lengths in EMU.  Inches() and Pt() return *)
(* whole EMU, but "/" in lines 71 and 109 is true division, so col_w,      *)
(* col_width, right_x and the x of each bottom column are in general not   *)
(* whole numbers.  Every value the script computes is a multiple of 1/6    *)
(* EMU (one division by 2 or by 3 of a whole number), so a computed value  *)
(* v is held here as the integer Q*v.  The shape factories of the document *)
(* library write x, y, cx, cy with the "%d" conversion, which drops the    *)
(* fraction; Fmt_d models it.  A shape record holds the whole EMU that end *)
(* up in the document.  The script computes in binary floating point; the  *)
(* exact value and the double differ by far less than 1/6 EMU, so the      *)
(* dropped fraction is the same unless the exact value is a whole number   *)
(* reached through an inexact third, which needs a column index i >= 3     *)
(* and does not occur for the widths drawn in ColumnFrames.                *)
(*                                                                         *)
(* Strings are ASCII: emoji of the literal texts are left out and the      *)
(* bullet glyph U+2022 is written BULLET.                                  *)
(***************************************************************************)
EXTENDS Integers, Sequences, FiniteSets, TLC

VARIABLES pc, call, prs, shapes, locals, saved, stdout, exit_status

vars == <<pc, call, prs, shapes, locals, saved, stdout, exit_status>>

-----------------------------------------------------------------------------
(* Bounds of the inputs drawn for the direct calls *)
MaxSections == 3
MaxSubs == 2
MaxCols == 3
MaxItems == 2

-----------------------------------------------------------------------------
(* Units *)
Q == 6

Num(emu) == emu * Q

\* "%d" % v: the fraction of v is dropped
Fmt_d_round(v) == IF v >= 0 THEN (2 * v + Q) \div (2 * Q) ELSE -((2 * (-v) + Q) \div (2 * Q))

Fmt_d(v) == IF v >= 0 THEN v \div Q ELSE -((-v) \div Q)

Inches(thousandths) == (thousandths * 9144) \div 10

Pt(points) == points * 12700

Unset == -1

PASTEL_BLUE == "A7D3F1"
PASTEL_GREEN == "BFE7C6"
TEXT_DARK == "222222"
LINE_LIGHT == "CCCCCC"

BULLET == "U+2022"

\* the lists over S of at most n entries in which no entry repeats its predecessor
SeqsUpTo(S, n) ==
    UNION {{q \in [1..k -> S] : \A j \in 1..(k - 1) : q[j] # q[j + 1]} : k \in 0..n}

\* the lists over S of at most n entries
ListsUpTo(S, n) == UNION {[1..k -> S] : k \in 0..n}

Get_wrong_key(d, key, default) == default

\* dict.get(key, default)
Get(d, key, default) == IF key \in DOMAIN d THEN d[key] ELSE default

-----------------------------------------------------------------------------
(* Text *)
set_run(text, size, bold) ==
    [text |-> text, name |-> "Segoe UI", size |-> Pt(size), bold |-> bold,
     color |-> TEXT_DARK]

\* the one paragraph a text frame holds after tf.clear()
EmptyParagraph == [level |-> 0, space_after |-> Unset, alignment |-> "unset", runs |-> <<>>]

\* slide.shapes.add_shape / add_textbox: geometry written with "%d"
Shape(shape_type, left, top, width, height) ==
    [shape_type |-> shape_type,
     x |-> Fmt_d(left), y |-> Fmt_d(top), cx |-> Fmt_d(width), cy |-> Fmt_d(height),
     fill |-> "none", word_wrap |-> FALSE, paragraphs |-> <<EmptyParagraph>>]

add_badge(sp, text, left, top, width, height, fill_color) ==
    LET shape == Shape("ROUNDED_RECTANGLE", left, top, width, height)
        p == [EmptyParagraph EXCEPT !.alignment = "CENTER",
                                    !.runs = <<set_run(text, 18, TRUE)>>]
    IN  Append(sp, [shape EXCEPT !.fill = fill_color, !.paragraphs = <<p>>])

\* the settings of a title paragraph p
title_paragraph(p, title) ==
    [p EXCEPT !.level = 0, !.space_after = Pt(4),
              !.runs = Append(@, set_run(title, 18, TRUE))]

\* the settings of a sub-item paragraph p
sub_paragraph(p, s) ==
    [p EXCEPT !.level = 1, !.space_after = Pt(2),
              !.runs = Append(@, set_run(s, 14, FALSE))]

RECURSIVE subs_loop(_, _, _)
subs_loop(tf, subs, j) ==
    IF j > Len(subs) THEN tf
    ELSE subs_loop(Append(tf, sub_paragraph(EmptyParagraph, subs[j])), subs, j + 1)

\* i counts from 1 here, from 0 in the source
RECURSIVE sections_loop(_, _, _)
sections_loop(tf, sections, i) ==
    IF i > Len(sections) THEN tf
    ELSE LET sec == sections[i]
             tf1 == IF i > 1 THEN Append(tf, EmptyParagraph) ELSE tf
             k   == IF i > 1 THEN Len(tf1) ELSE 1
             tf2 == [tf1 EXCEPT ![k] = title_paragraph(@, sec.title)]
         IN  sections_loop(subs_loop(tf2, Get(sec, "subs", <<>>), 1), sections, i + 1)

add_bullets(sp, left, top, width, height, sections) ==
    LET box == Shape("TEXT_BOX", left, top, width, height)
    IN  Append(sp, [box EXCEPT !.word_wrap = TRUE,
                               !.paragraphs = sections_loop(<<EmptyParagraph>>, sections, 1)])

item_paragraph_4pt(p, item) ==
    [p EXCEPT !.level = 0, !.space_after = Pt(4),
              !.runs = Append(@, set_run(BULLET \o " " \o item, 16, FALSE))]

item_paragraph_no_glyph(p, item) ==
    [p EXCEPT !.level = 0, !.space_after = Pt(2),
              !.runs = Append(@, set_run(item, 16, FALSE))]

\* the settings of an item paragraph p
item_paragraph(p, item) ==
    [p EXCEPT !.level = 0, !.space_after = Pt(2),
              !.runs = Append(@, set_run(BULLET \o " " \o item, 16, FALSE))]

\* j counts from 1 here, from 0 in the source
RECURSIVE items_loop(_, _, _)
items_loop(tf, items, j) ==
    IF j > Len(items) THEN tf
    ELSE LET tf1 == IF j > 1 THEN Append(tf, EmptyParagraph) ELSE tf
             k   == IF j > 1 THEN Len(tf1) ELSE 1
             tf2 == [tf1 EXCEPT ![k] = item_paragraph(@, items[j])]
         IN  items_loop(tf2, items, j + 1)

gap == Num(Inches(250))

col_w_two_columns(total_width) == (total_width - gap) \div 2

col_w(total_width) == (total_width - 2 * gap) \div 3

col_x_no_gap(left, total_width, i) == left + i * col_w(total_width)

col_x(left, total_width, i) == left + i * (col_w(total_width) + gap)

\* i counts from 0 as in the source
RECURSIVE cols_loop(_, _, _, _, _, _, _)
cols_loop(sp, left, top, total_width, height, cols, i) ==
    IF i >= Len(cols) THEN sp
    ELSE LET col == cols[i + 1]
             x == col_x(left, total_width, i)
             sp1 == add_badge(sp, col.badge[1], x, top, col_w(total_width),
                              Num(Inches(500)), col.badge[2])
             box_top == top + Num(Inches(600))
             box == Shape("TEXT_BOX", x, box_top, col_w(total_width), height - Num(Inches(600)))
             sp2 == Append(sp1, [box EXCEPT !.word_wrap = TRUE,
                                            !.paragraphs = items_loop(<<EmptyParagraph>>, col.items, 1)])
         IN  cols_loop(sp2, left, top, total_width, height, cols, i + 1)

add_bottom_three_columns(sp, left, top, total_width, height, cols) ==
    cols_loop(sp, left, top, total_width, height, cols, 0)

add_divider_thick(sp, left, top, width) ==
    LET line == Shape("RECTANGLE", left, top, width, Num(Inches(200)))
    IN  Append(sp, [line EXCEPT !.fill = LINE_LIGHT])

add_divider(sp, left, top, width) ==
    LET line == Shape("RECTANGLE", left, top, width, Num(Inches(20)))
    IN  Append(sp, [line EXCEPT !.fill = LINE_LIGHT])

-----------------------------------------------------------------------------
(* Literal content of main() *)
left_sections ==
    << [title |-> "High Recall Focus",
        subs |-> <<"Critical for field deployment to reduce disease spread">>],
       [title |-> "Modular Architecture",
        subs |-> <<"Autoencoder and classifier can work independently or together">>],
       [title |-> "Ease of Data Acquisition",
        subs |-> <<"Autoencoder requires few or no diseased images",
                   "Classifier trained only on images autoencoder fails to detect">>] >>

right_sections ==
    << [title |-> "Autoencoder Limitations",
        subs |-> <<"Weak decoder reduces standalone performance",
                   "Normalization may worsen results">>],
       [title |-> "Improvement Opportunities",
        subs |-> <<"Enhanced decoder (skip connections + attention mechanisms)",
                   "Robust loss functions and tailored training strategies",
                   "Ensemble with classifier for sparse proprietary data">>] >>

bottom_cols ==
    << [badge |-> <<"Dataset Observations", PASTEL_BLUE>>,
        items |-> <<"Classifier handles varied conditions (day/night)",
                    "More diseased samples -> better performance">>],
       [badge |-> <<"Model Choice", PASTEL_GREEN>>,
        items |-> <<"Lightweight MobileViT2 outperforms larger models like EfficientNet">>],
       [badge |-> <<"Takeaway", PASTEL_BLUE>>,
        items |-> <<"Lightweight anomaly detector + classifier is optimal for deployment",
                    "Reduces data collection effort and maintains high recall">>] >>

out_name == "MobileViT2-Anomaly-Detector-Key-Insights.pptx"

-----------------------------------------------------------------------------
(* Inputs of the direct calls: whole EMU *)
Titles == {"T1", "T2"}
SubTexts == {"s1", "s2"}
SectionSet ==
    [title : Titles] \cup [title : Titles, subs : SeqsUpTo(SubTexts, MaxSubs)]

Badges == {<<"B1", PASTEL_BLUE>>, <<"B2", PASTEL_GREEN>>}
ItemTexts == {"i1", "i2"}
ColumnSet == [badge : Badges, items : SeqsUpTo(ItemTexts, MaxItems)]

\* left and height of a direct call of add_bullets
Frames == {<<0, Inches(600)>>, <<Inches(500), Inches(1200)>>}
\* left, total_width and height of a direct call of add_bottom_three_columns:
\* total widths around 2*gap, and the one main passes
ColumnFrames ==
    {<<0, 2 * Inches(250) - 1, Inches(600)>>,
     <<Inches(500), 2 * Inches(250), Inches(1200)>>,
     <<0, 2 * Inches(250) + 1, Inches(1200)>>,
     <<Inches(500), 2 * Inches(250) + 3, Inches(600)>>,
     <<0, 2 * Inches(250) + 5, Inches(600)>>,
     <<0, Inches(13333) - 2 * Inches(500), Inches(600)>>,
     <<Inches(500), Inches(13333) - 2 * Inches(500), Inches(1200)>>}

NoCall == [fn |-> "none", left |-> 0, top |-> 0, width |-> 0, height |-> 0, data |-> <<>>]

NoLocals ==
    [margin |-> 0, content_top |-> 0, column_height |-> 0, col_gap |-> 0,
     col_width |-> 0, left_x |-> 0, right_x |-> 0,
     divider_y |-> 0, bottom_top |-> 0, bottom_height |-> 0]

-----------------------------------------------------------------------------
Init ==
    /\ pc = "idle"
    /\ call = NoCall
    /\ prs = [slide_width |-> 0, slide_height |-> 0, slides |-> 0]
    /\ shapes = <<>>
    /\ locals = NoLocals
    /\ saved = <<>>
    /\ stdout = <<>>
    /\ exit_status = Unset

(* add_bullets called on an empty slide *)
CallAddBullets ==
    /\ pc = "idle"
    /\ \E frame \in Frames, sections \in ListsUpTo(SectionSet, MaxSections) :
          LET left == frame[1]
              height == frame[2]
              top == Inches(900)
              width == Inches(5000)
          IN  /\ call' = [fn |-> "add_bullets", left |-> left, top |-> top,
                          width |-> width, height |-> height, data |-> sections]
              /\ shapes' = add_bullets(shapes, Num(left), Num(top), Num(width),
                                       Num(height), sections)
    /\ pc' = "returned"
    /\ UNCHANGED <<prs, locals, saved, stdout, exit_status>>

(* add_bottom_three_columns called on an empty slide *)
CallAddBottomThreeColumns ==
    /\ pc = "idle"
    /\ \E frame \in ColumnFrames, cols \in ListsUpTo(ColumnSet, MaxCols) :
          LET left == frame[1]
              total_width == frame[2]
              height == frame[3]
              top == Inches(5900)
          IN  /\ call' = [fn |-> "add_bottom_three_columns", left |-> left, top |-> top,
                          width |-> total_width, height |-> height, data |-> cols]
              /\ shapes' = add_bottom_three_columns(shapes, Num(left), Num(top),
                                                    Num(total_width), Num(height), cols)
    /\ pc' = "returned"
    /\ UNCHANGED <<prs, locals, saved, stdout, exit_status>>

(* main(), one action per statement group *)
MainPresentation ==
    /\ pc = "idle"
    /\ prs' = [slide_width |-> 9144000, slide_height |-> 6858000, slides |-> 0]
    /\ call' = [NoCall EXCEPT !.fn = "main"]
    /\ pc' = "m_size"
    /\ UNCHANGED <<shapes, locals, saved, stdout, exit_status>>

MainSlideSize_swapped ==
    /\ pc = "m_size"
    /\ prs' = [prs EXCEPT !.slide_width = Inches(7500), !.slide_height = Inches(13333)]
    /\ pc' = "m_slide"
    /\ UNCHANGED <<call, shapes, locals, saved, stdout, exit_status>>

MainSlideSize ==
    /\ pc = "m_size"
    /\ prs' = [prs EXCEPT !.slide_width = Inches(13333), !.slide_height = Inches(7500)]
    /\ pc' = "m_slide"
    /\ UNCHANGED <<call, shapes, locals, saved, stdout, exit_status>>

MainAddSlide ==
    /\ pc = "m_slide"
    /\ prs' = [prs EXCEPT !.slides = @ + 1]
    /\ pc' = "m_layout"
    /\ UNCHANGED <<call, shapes, locals, saved, stdout, exit_status>>

MainLayout ==
    /\ pc = "m_layout"
    /\ LET margin == Num(Inches(500))
           col_gap == Num(Inches(400))
           col_width == (Num(prs.slide_width) - 2 * margin - col_gap) \div 2
       IN  locals' = [locals EXCEPT !.margin = margin,
                                    !.content_top = Num(Inches(900)),
                                    !.column_height = Num(Inches(4600)),
                                    !.col_gap = col_gap,
                                    !.col_width = col_width,
                                    !.left_x = margin,
                                    !.right_x = margin + col_width + col_gap]
    /\ pc' = "m_left_badge"
    /\ UNCHANGED <<call, prs, shapes, saved, stdout, exit_status>>

MainLeftBadge ==
    /\ pc = "m_left_badge"
    /\ shapes' = add_badge(shapes, "Advantages / Strengths", locals.left_x,
                           Num(Inches(300)), locals.col_width, Num(Inches(500)), PASTEL_GREEN)
    /\ pc' = "m_left_bullets"
    /\ UNCHANGED <<call, prs, locals, saved, stdout, exit_status>>

MainLeftBullets ==
    /\ pc = "m_left_bullets"
    /\ shapes' = add_bullets(shapes, locals.left_x, locals.content_top, locals.col_width,
                             locals.column_height, left_sections)
    /\ pc' = "m_right_badge"
    /\ UNCHANGED <<call, prs, locals, saved, stdout, exit_status>>

MainRightBadge ==
    /\ pc = "m_right_badge"
    /\ shapes' = add_badge(shapes, "Limitations / Recommendations", locals.right_x,
                           Num(Inches(300)), locals.col_width, Num(Inches(500)), PASTEL_BLUE)
    /\ pc' = "m_right_bullets"
    /\ UNCHANGED <<call, prs, locals, saved, stdout, exit_status>>

MainRightBullets ==
    /\ pc = "m_right_bullets"
    /\ shapes' = add_bullets(shapes, locals.right_x, locals.content_top, locals.col_width,
                             locals.column_height, right_sections)
    /\ pc' = "m_divider"
    /\ UNCHANGED <<call, prs, locals, saved, stdout, exit_status>>

MainDivider ==
    /\ pc = "m_divider"
    /\ LET divider_y == locals.content_top + locals.column_height + Num(Inches(200))
       IN  /\ locals' = [locals EXCEPT !.divider_y = divider_y]
           /\ shapes' = add_divider(shapes, locals.margin, divider_y,
                                    Num(prs.slide_width) - 2 * locals.margin)
    /\ pc' = "m_bottom"
    /\ UNCHANGED <<call, prs, saved, stdout, exit_status>>

MainBottom ==
    /\ pc = "m_bottom"
    /\ LET bottom_top == locals.divider_y + Num(Inches(200))
           bottom_height == Num(prs.slide_height) - bottom_top - Num(Inches(400))
       IN  /\ locals' = [locals EXCEPT !.bottom_top = bottom_top,
                                       !.bottom_height = bottom_height]
           /\ shapes' = add_bottom_three_columns(shapes, locals.margin, bottom_top,
                                                 Num(prs.slide_width) - 2 * locals.margin,
                                                 bottom_height, bottom_cols)
    /\ pc' = "m_save"
    /\ UNCHANGED <<call, prs, saved, stdout, exit_status>>

\* prs.save(out_name) writes the file
MainSave ==
    /\ pc = "m_save"
    /\ saved' = Append(saved, [name |-> out_name, slide_width |-> prs.slide_width,
                               slide_height |-> prs.slide_height, slides |-> prs.slides,
                               shapes |-> shapes])
    /\ pc' = "m_print"
    /\ UNCHANGED <<call, prs, shapes, locals, stdout, exit_status>>

MainSaveFails_swallowed ==
    /\ pc = "m_save"
    /\ pc' = "m_print"
    /\ UNCHANGED <<call, prs, shapes, locals, saved, stdout, exit_status>>

\* prs.save(out_name) raises: nothing in main catches it
MainSaveFails ==
    /\ pc = "m_save"
    /\ exit_status' = 1
    /\ pc' = "done"
    /\ UNCHANGED <<call, prs, shapes, locals, saved, stdout>>

MainPrint ==
    /\ pc = "m_print"
    /\ stdout' = Append(stdout, "Saved: " \o out_name)
    /\ exit_status' = 0
    /\ pc' = "done"
    /\ UNCHANGED <<call, prs, shapes, locals, saved>>

Next ==
    \/ CallAddBullets
    \/ CallAddBottomThreeColumns
    \/ MainPresentation
    \/ MainSlideSize
    \/ MainAddSlide
    \/ MainLayout
    \/ MainLeftBadge
    \/ MainLeftBullets
    \/ MainRightBadge
    \/ MainRightBullets
    \/ MainDivider
    \/ MainBottom
    \/ MainSave
    \/ MainSaveFails
    \/ MainPrint

Spec == Init /\ [][Next]_vars

-----------------------------------------------------------------------------
(* Vocabulary of the properties *)
GapEmu == Inches(250)

IsColsCall == pc = "returned" /\ call.fn = "add_bottom_three_columns"

IsBulletsCall == pc = "returned" /\ call.fn = "add_bullets"

IsMain == call.fn = "main"

NCols == Len(call.data)

\* badge and text box of column i (1..NCols) after a direct call
Badge(i) == shapes[2 * i - 1]
Box(i) == shapes[2 * i]

\* width left for the three columns once the two gaps are taken out
Rest == call.width - 2 * GapEmu

-----------------------------------------------------------------------------
-----------------------------------------------------------------------------
\* C2 (as stated): when the gaps consume the whole parent width
\* (gap*(n-1) >= total_width) the column split fails before any shape is
\* added; no badge or text box of non-positive width is appended.
C2_FailsFast ==
    (IsColsCall /\ NCols >= 1 /\ GapEmu * (NCols - 1) >= call.width) =>
        shapes = <<>>

-----------------------------------------------------------------------------
\* the outline a list of sections stands for: per section its title at level 0,
\* then its sub-items at level 1
RECURSIVE Outline(_)
Outline(sections) ==
    IF sections = <<>> THEN <<>>
    ELSE LET sec == Head(sections)
             subs == IF "subs" \in DOMAIN sec THEN sec.subs ELSE <<>>
         IN  <<[level |-> 0, texts |-> <<sec.title>>]>>
               \o [j \in 1..Len(subs) |-> [level |-> 1, texts |-> <<subs[j]>>]]
               \o Outline(Tail(sections))

RECURSIVE OutlineSize(_)
OutlineSize(sections) ==
    IF sections = <<>> THEN 0
    ELSE (IF "subs" \in DOMAIN Head(sections) THEN 1 + Len(Head(sections).subs) ELSE 1)
           + OutlineSize(Tail(sections))

\* level and run texts of each paragraph of a shape
Rendered(shape) ==
    [k \in 1..Len(shape.paragraphs) |->
        [level |-> shape.paragraphs[k].level,
         texts |-> [r \in 1..Len(shape.paragraphs[k].runs) |-> shape.paragraphs[k].runs[r].text]]]

\* C3 (as stated): for every list of sections the paragraphs of the text frame
\* are exactly the titles (level 0) each followed by its sub-items (level 1),
\* in input order, and their number is the sum of (1 + number of sub-items).
C3_AsStated ==
    IsBulletsCall =>
        /\ Len(shapes) = 1
        /\ Rendered(shapes[1]) = Outline(call.data)
        /\ Len(shapes[1].paragraphs) = OutlineSize(call.data)

\* C3 (amended): the same for every non-empty list of sections; for the empty
\* list the text frame holds one empty paragraph (no run), so its paragraph
\* count is 1, not 0.
C3_OutlineInOrder ==
    IsBulletsCall =>
        /\ Len(shapes) = 1
        /\ shapes[1].shape_type = "TEXT_BOX"
        /\ (call.data # <<>> =>
              /\ Rendered(shapes[1]) = Outline(call.data)
              /\ Len(shapes[1].paragraphs) = OutlineSize(call.data))
        /\ (call.data = <<>> => shapes[1].paragraphs = <<EmptyParagraph>>)

C3_Witness ==
    /\ IsBulletsCall
    /\ Len(call.data) = 3
    /\ DOMAIN call.data[1] = {"title"}
    /\ "subs" \in DOMAIN call.data[2] /\ Len(call.data[2].subs) = 1
    /\ "subs" \in DOMAIN call.data[3] /\ Len(call.data[3].subs) = 2
    /\ Len(shapes[1].paragraphs) = 6

-----------------------------------------------------------------------------
MainShapeTypes ==
    <<"ROUNDED_RECTANGLE", "TEXT_BOX", "ROUNDED_RECTANGLE", "TEXT_BOX", "RECTANGLE",
      "ROUNDED_RECTANGLE", "TEXT_BOX", "ROUNDED_RECTANGLE", "TEXT_BOX",
      "ROUNDED_RECTANGLE", "TEXT_BOX">>

\* C4: after main() has run to completion exactly one presentation has been
\* saved, 13.333in by 7.5in, and its single slide holds 11 shapes in the order
\* left badge, left text box, right badge, right text box, divider, then badge
\* and text box per bottom column: 6 shapes that are not text boxes, 5 that are.
C4_OneArtifact ==
    (IsMain /\ pc = "done" /\ exit_status = 0) =>
        /\ Len(saved) = 1
        /\ saved[1].name = out_name
        /\ saved[1].slide_width = Inches(13333)
        /\ saved[1].slide_height = Inches(7500)
        /\ saved[1].slides = 1
        /\ Len(saved[1].shapes) = 11
        /\ [k \in 1..11 |-> saved[1].shapes[k].shape_type] = MainShapeTypes
        /\ Cardinality({k \in 1..11 : saved[1].shapes[k].shape_type # "TEXT_BOX"}) = 6
        /\ Cardinality({k \in 1..11 : saved[1].shapes[k].shape_type = "TEXT_BOX"}) = 5
        /\ saved[1].shapes[1].x = Fmt_d(locals.left_x)
        /\ saved[1].shapes[3].x = Fmt_d(locals.right_x)
        /\ saved[1].shapes[6].x < saved[1].shapes[8].x
        /\ saved[1].shapes[8].x < saved[1].shapes[10].x

C4_Witness ==
    /\ IsMain
    /\ pc = "done"
    /\ exit_status = 0
    /\ Len(saved) = 1
    /\ Len(saved[1].shapes) = 11

-----------------------------------------------------------------------------
\* C5 (as stated): with exactly 3 columns and total_width > 2*gap the 3 badges
\* have the same top, height 0.5in, equal positive widths, each ends exactly
\* one gap before the next starts, and the third ends at left + total_width.
C5_AsStated ==
    (IsColsCall /\ NCols = 3 /\ Rest > 0) =>
        /\ \A i \in 1..3 : /\ Badge(i).y = call.top
                           /\ Badge(i).cy = Inches(500)
                           /\ Badge(i).cx = Badge(1).cx
                           /\ Badge(i).cx > 0
        /\ \A i \in 1..2 : Badge(i).x + Badge(i).cx + GapEmu = Badge(i + 1).x
        /\ Badge(3).x + Badge(3).cx = call.left + call.width

\* C5 (amended): with exactly 3 columns and total_width > 2*gap the 3 badges
\* have the same top, height 0.5in and equal widths floor((total_width -
\* 2*gap)/3), positive once total_width >= 2*gap + 3 EMU; they do not overlap:
\* each starts one gap, or one gap plus 1 EMU, after the previous one ends;
\* the third ends at left + total_width when total_width - 2*gap is a
\* multiple of 3 and 1 EMU before it otherwise.
C5_ThreeBadgesInARow ==
    (IsColsCall /\ NCols = 3 /\ Rest > 0) =>
        /\ \A i \in 1..3 : /\ Badge(i).shape_type = "ROUNDED_RECTANGLE"
                           /\ Badge(i).y = call.top
                           /\ Badge(i).cy = Inches(500)
                           /\ Badge(i).cx = Rest \div 3
                           /\ Badge(i).cx >= 0
                           /\ (Rest >= 3 <=> Badge(i).cx > 0)
        /\ \A i \in 1..2 :
              Badge(i + 1).x - (Badge(i).x + Badge(i).cx) \in {GapEmu, GapEmu + 1}
        /\ Badge(3).x + Badge(3).cx
              = call.left + call.width - (IF Rest % 3 = 0 THEN 0 ELSE 1)

C5_Witness ==
    /\ IsColsCall
    /\ NCols = 3
    /\ call.left = Inches(500)
    /\ call.width = Inches(13333) - 2 * Inches(500)
    /\ Badge(3).x + Badge(3).cx = Inches(13333) - Inches(500) - 1

-----------------------------------------------------------------------------
TopColumnsPlaced == IsMain /\ Len(shapes) >= 4

\* C6 (as stated): the two top columns of main never overlap, their combined
\* width plus the gap is slide_width - 2*margin and the right column ends at
\* slide_width - margin, in whole EMU.
C6_AsStated ==
    TopColumnsPlaced =>
        \A l \in {1, 2} :
            LET r == l + 2
            IN  /\ shapes[l].x + shapes[l].cx <= shapes[r].x
                /\ shapes[l].cx + shapes[r].cx + Inches(400)
                     = prs.slide_width - 2 * Inches(500)
                /\ shapes[r].x + shapes[r].cx = prs.slide_width - Inches(500)

\* C6 (amended): the two top columns of main never overlap and are one gap
\* (0.4in) apart.  In the values main computes, col_width = 5455767.5 EMU is
\* not a whole number; there the combined width plus the gap is slide_width -
\* 2*margin and right_x + col_width = slide_width - margin.  The shapes hold
\* whole EMU with the fraction dropped: their combined width plus the gap is
\* 1 EMU less than slide_width - 2*margin and the right column ends 1 EMU
\* before slide_width - margin.
C6_TopColumns ==
    TopColumnsPlaced =>
        /\ locals.col_width % Q # 0
        /\ 2 * locals.col_width + locals.col_gap = Num(prs.slide_width) - 2 * locals.margin
        /\ locals.right_x + locals.col_width = Num(prs.slide_width) - locals.margin
        /\ \A l \in {1, 2} :
              LET r == l + 2
              IN  /\ shapes[l].x = Inches(500)
                  /\ shapes[l].x + shapes[l].cx + Inches(400) = shapes[r].x
                  /\ shapes[l].cx = shapes[r].cx
                  /\ shapes[l].cx + shapes[r].cx + Inches(400)
                       = prs.slide_width - 2 * Inches(500) - 1
                  /\ shapes[r].x + shapes[r].cx = prs.slide_width - Inches(500) - 1

C6_Witness ==
    /\ TopColumnsPlaced
    /\ shapes[1].cx = 5455767
    /\ shapes[3].x = 6278727
    /\ shapes[4].cx = 5455767

-----------------------------------------------------------------------------
\* C7: the confirmation line is printed only after the save has succeeded and
\* is the last event of a run, which then exits 0; a failed save ends the run
\* with status 1 and nothing printed; the save happens when all 11 shapes are
\* on the slide and no shape is added after it.
C7_Step ==
    /\ pc # "done"
    /\ (stdout' # stdout =>
          /\ Len(saved) = 1
          /\ stdout' = <<"Saved: " \o saved[1].name>>
          /\ pc' = "done"
          /\ exit_status' = 0)
    /\ (exit_status' = 0 => stdout' # stdout)
    /\ (exit_status' = 1 => saved = <<>> /\ stdout' = <<>> /\ pc' = "done")
    /\ (saved' # saved => saved = <<>> /\ Len(shapes) = 11 /\ saved'[1].shapes = shapes)
    /\ (saved # <<>> => shapes' = shapes)

C7_SaveThenPrint == [][C7_Step]_vars

C7_Witness ==
    /\ pc = "done"
    /\ exit_status = 0
    /\ Len(saved) = 1
    /\ stdout = <<"Saved: " \o out_name>>

-----------------------------------------------------------------------------
\* positions in shapes of the text boxes made by add_bullets
OutlineBoxes ==
    IF IsBulletsCall THEN {1}
    ELSE IF IsMain THEN {2, 4} \cap (1..Len(shapes))
    ELSE {}

\* positions in shapes of the text boxes made by add_bottom_three_columns
ColumnBoxes ==
    IF IsColsCall THEN {k \in 1..Len(shapes) : k % 2 = 0}
    ELSE IF IsMain THEN {7, 9, 11} \cap (1..Len(shapes))
    ELSE {}

\* the paragraphs of shape k that hold text
TextParagraphs(k) ==
    {q \in 1..Len(shapes[k].paragraphs) : shapes[k].paragraphs[q].runs # <<>>}

\* C8 (as stated): in the outline text boxes and in the bottom column text
\* boxes every level-0 paragraph has space-after 4pt and every level-1
\* paragraph has space-after 2pt.
C8_AsStated ==
    \A k \in OutlineBoxes \cup ColumnBoxes :
        \A q \in TextParagraphs(k) :
            LET p == shapes[k].paragraphs[q]
            IN  /\ p.level \in {0, 1}
                /\ (p.level = 0 => p.space_after = Pt(4))
                /\ (p.level = 1 => p.space_after = Pt(2))

\* C8 (amended): in the outline text boxes (add_bullets) every level-0
\* paragraph has space-after 4pt and every level-1 paragraph 2pt; in the bottom
\* column text boxes (add_bottom_three_columns) every item paragraph is level 0
\* with space-after 2pt.
C8_Spacing ==
    /\ \A k \in OutlineBoxes :
          \A q \in TextParagraphs(k) :
              LET p == shapes[k].paragraphs[q]
              IN  /\ p.level \in {0, 1}
                  /\ (p.level = 0 => p.space_after = Pt(4))
                  /\ (p.level = 1 => p.space_after = Pt(2))
    /\ \A k \in ColumnBoxes :
          \A q \in TextParagraphs(k) :
              LET p == shapes[k].paragraphs[q]
              IN  p.level = 0 /\ p.space_after = Pt(2)

C8_Witness ==
    /\ IsMain
    /\ Len(shapes) = 11
    /\ shapes[2].paragraphs[1].space_after = Pt(4)
    /\ shapes[2].paragraphs[2].space_after = Pt(2)
    /\ shapes[7].paragraphs[1].level = 0
    /\ shapes[7].paragraphs[1].space_after = Pt(2)

-----------------------------------------------------------------------------
\* C9: for each column given to add_bottom_three_columns the badge is added
\* first and its text box second; the text box has the badge's x and width,
\* starts 0.6in below the badge's top, below the 0.5in-high badge, has height
\* = height - 0.6in and holds one level-0 paragraph per item, in input order,
\* with text: bullet glyph, space, item; for an empty item list it holds one
\* empty paragraph.
C9_BadgeThenItems ==
    IsColsCall =>
        /\ Len(shapes) = 2 * NCols
        /\ \A i \in 1..NCols :
              LET col == call.data[i]
                  ps == Box(i).paragraphs
              IN  /\ Badge(i).shape_type = "ROUNDED_RECTANGLE"
                  /\ Rendered(Badge(i)) = <<[level |-> 0, texts |-> <<col.badge[1]>>]>>
                  /\ Badge(i).fill = col.badge[2]
                  /\ Box(i).shape_type = "TEXT_BOX"
                  /\ Box(i).x = Badge(i).x
                  /\ Box(i).cx = Badge(i).cx
                  /\ Badge(i).y = call.top
                  /\ Badge(i).cy = Inches(500)
                  /\ Box(i).y = Badge(i).y + Inches(600)
                  /\ Box(i).y > Badge(i).y + Badge(i).cy
                  /\ Box(i).cy = call.height - Inches(600)
                  /\ (col.items = <<>> => ps = <<EmptyParagraph>>)
                  /\ (col.items # <<>> =>
                        /\ Len(ps) = Len(col.items)
                        /\ \A q \in 1..Len(ps) :
                              /\ ps[q].level = 0
                              /\ Len(ps[q].runs) = 1
                              /\ ps[q].runs[1].text = BULLET \o " " \o col.items[q])

C9_Witness ==
    /\ IsColsCall
    /\ NCols = 3
    /\ call.data[1].items = <<"i2", "i1">>
    /\ call.data[2].items = <<>>
    /\ Len(Box(1).paragraphs) = 2
    /\ Box(2).paragraphs = <<EmptyParagraph>>

-----------------------------------------------------------------------------
Bottom(shape) == shape.y + shape.cy

\* C10: every shape main places has positive width and height and lies inside
\* the 13.333in by 7.5in canvas; the bands are disjoint and ordered: top badges
\* 0.3in to 0.8in, outline text boxes from 0.9in to content_top +
\* column_height, then the divider, then the bottom row from bottom_top to
\* slide_height - 0.4in, with bottom_height - 0.6in > 0 for the column text
\* boxes.
C10_Bands ==
    (IsMain /\ Len(shapes) > 0) =>
        /\ \A k \in 1..Len(shapes) :
              /\ shapes[k].cx > 0 /\ shapes[k].cy > 0
              /\ shapes[k].x >= 0 /\ shapes[k].x + shapes[k].cx <= Inches(13333)
              /\ shapes[k].y >= 0 /\ Bottom(shapes[k]) <= Inches(7500)
              /\ prs.slide_width = Inches(13333) /\ prs.slide_height = Inches(7500)
        /\ (Len(shapes) = 11 =>
              /\ \A k \in {1, 3} : shapes[k].y = Inches(300) /\ Bottom(shapes[k]) = Inches(800)
              /\ \A k \in {2, 4} : /\ shapes[k].y = Inches(900)
                                   /\ Bottom(shapes[k]) = Inches(900) + Inches(4600)
                                   /\ Bottom(shapes[1]) < shapes[k].y
                                   /\ Bottom(shapes[k]) < shapes[5].y
              /\ \A k \in {6, 8, 10} : /\ Bottom(shapes[5]) < shapes[k].y
                                       /\ shapes[k].y = Fmt_d(locals.bottom_top)
                                       /\ Bottom(shapes[k]) < shapes[k + 1].y
                                       /\ Bottom(shapes[k + 1]) = Inches(7500) - Inches(400)
                                       /\ shapes[k + 1].cy
                                            = Fmt_d(locals.bottom_height) - Inches(600)
                                       /\ shapes[k + 1].cy > 0)

C10_Witness ==
    /\ IsMain
    /\ Len(shapes) = 11
    /\ shapes[5].y = 5212080
    /\ shapes[6].y = 5394960
    /\ Bottom(shapes[11]) = 6492240

====
